---- MODULE Spec2Model ----
(***************************************************************************)
(* A model of ultira, a rating calculator for the card game Ulti.          *)
(*                                                                         *)
(* The ledger file holds a Config and a History (a sequence of Change      *)
(* records).  Ratings are never stored: every command replays the History  *)
(* with Data::evaluate.  One action of the model is one command of the     *)
(* binary (src/src/main.rs), run from its read of the file to its exit.    *)
(*                                                                         *)
(* Numbers.  The program computes in f64.  The model keeps the shape of    *)
(* that arithmetic and scales it down: a finite value is an integer count  *)
(* of 1/Scale units, every operation rounds its exact result to nearest    *)
(* (ties to even) onto Digits significant decimal digits, a magnitude      *)
(* above MaxFinite overflows to an infinity, and NaN and the two           *)
(* infinities follow the IEEE 754 rules.  Decimal digits make the          *)
(* program's literals (0.02, 50.0, 100.0) exact, as small integers are in  *)
(* an f64.                                                                 *)
(***************************************************************************)
EXTENDS Integers, Sequences, FiniteSets, TLC

(***************************************************************************)
(* f64, scaled down                                                        *)
(***************************************************************************)
\* units per 1.0
Scale == 1000
\* significant decimal digits
Digits == 4
\* the largest finite magnitude, in units
MaxFinite == 1000000
\* the three values of an f64 that are not finite
PosInf == MaxFinite + 1
NegInf == 0 - PosInf
NaN == MaxFinite + 2

IsFinite(x) == x >= 0 - MaxFinite /\ x <= MaxFinite
IsNaN(x) == x = NaN
F64 == (0 - MaxFinite .. MaxFinite) \cup {PosInf, NegInf, NaN}

Abs(x) == IF x < 0 THEN 0 - x ELSE x
Sgn(x) == IF x < 0 THEN 0 - 1 ELSE IF x > 0 THEN 1 ELSE 0
Inf(s) == IF s < 0 THEN NegInf ELSE PosInf

RECURSIVE Pow2(_)
Pow2(k) == IF k = 0 THEN 1 ELSE 2 * Pow2(k - 1)

RECURSIVE Pow10(_)
Pow10(k) == IF k = 0 THEN 1 ELSE 10 * Pow10(k - 1)

\* the least power of ten g >= g0 with m < 10^Digits * g: the spacing of the
\* representable values around m
RECURSIVE Spacing(_, _)
Spacing(m, g0) == IF m < Pow10(Digits) * g0 THEN g0 ELSE Spacing(m, 10 * g0)

\* n / d for n >= 0, d > 0, rounded to nearest, ties to even
RoundDivNat(n, d) ==
  LET q == n \div d
      r == n % d
  IN IF 2 * r > d \/ (2 * r = d /\ q % 2 = 1) THEN q + 1 ELSE q

\* n / d for d # 0, rounded to nearest, ties to even
RoundDiv(n, d) == Sgn(n) * Sgn(d) * RoundDivNat(Abs(n), Abs(d))

\* the exact value x (an integer count of units) as the nearest f64
Fl(x) ==
  IF Abs(x) > MaxFinite THEN Inf(x)
  ELSE IF Abs(x) < Pow10(Digits) THEN x
  ELSE Sgn(x) * RoundDivNat(Abs(x), Spacing(Abs(x), 10)) * Spacing(Abs(x), 10)

FNeg(a) == IF IsNaN(a) THEN NaN ELSE 0 - a

\* a + b
FAdd(a, b) ==
  IF IsNaN(a) \/ IsNaN(b) THEN NaN
  ELSE IF ~IsFinite(a) /\ ~IsFinite(b) THEN (IF a = b THEN a ELSE NaN)
  ELSE IF ~IsFinite(a) THEN a
  ELSE IF ~IsFinite(b) THEN b
  ELSE Fl(a + b)

\* a - b
FSub(a, b) == FAdd(a, FNeg(b))

\* whether |a| * |b| stays below 2^31 (it then can be formed exactly)
MulFits(a, b) == a = 0 \/ Abs(b) <= 2147483647 \div Abs(a)

\* a * b
FMul(a, b) ==
  IF IsNaN(a) \/ IsNaN(b) THEN NaN
  ELSE IF ~IsFinite(a) \/ ~IsFinite(b)
       THEN (IF a = 0 \/ b = 0 THEN NaN ELSE Inf(Sgn(a) * Sgn(b)))
  ELSE IF ~MulFits(a, b) THEN Inf(Sgn(a) * Sgn(b))
  ELSE Fl(RoundDiv(a * b, Scale))

\* a / b
FDiv(a, b) ==
  IF IsNaN(a) \/ IsNaN(b) THEN NaN
  ELSE IF ~IsFinite(a) /\ ~IsFinite(b) THEN NaN
  ELSE IF ~IsFinite(a) THEN Inf(Sgn(a) * (IF b < 0 THEN 0 - 1 ELSE 1))
  ELSE IF ~IsFinite(b) THEN 0
  ELSE IF b = 0 THEN (IF a = 0 THEN NaN ELSE Inf(a))
  ELSE Fl(RoundDiv(a * Scale, b))

\* the integer n as an f64 (`n as f64`)
FromInt(n) == Fl(n * Scale)

\* ln 2 in units of 1/ExpScale, and the resolution the exponential is summed at
Ln2 == 6931
ExpScale == 10000

\* sum of term * r^j / ((n+1)(n+2)...(n+j)), j = 0, 1, ..., at resolution ExpScale
RECURSIVE ExpSeries(_, _, _)
ExpSeries(r, term, n) ==
  IF term = 0 \/ n >= 20 THEN 0
  ELSE term + ExpSeries(r, RoundDiv(term * r, (n + 1) * ExpScale), n + 1)

\* e^(y / Scale) in units, for a finite y: e^y = 2^k * e^r with y = k ln 2 + r
ExpUnits(y) ==
  LET k == RoundDiv(y * (ExpScale \div Scale), Ln2)
      r == y * (ExpScale \div Scale) - k * Ln2
      e == ExpSeries(r, ExpScale, 0)
  IN IF k >= 0 THEN RoundDiv(e * Pow2(k), ExpScale \div Scale)
     ELSE RoundDiv(e, (ExpScale \div Scale) * Pow2(0 - k))

\* f64::exp
FExp(x) ==
  IF IsNaN(x) THEN NaN
  ELSE IF x = PosInf THEN PosInf
  ELSE IF x = NegInf THEN 0
  ELSE IF x > 7 * Scale THEN PosInf
  ELSE IF x < 0 - 8 * Scale THEN 0
  ELSE Fl(ExpUnits(x))

\* the array or vector f[1], ..., f[n], its elements computed once each, in order
RECURSIVE Vector(_, _)
Vector(f, n) == IF n = 0 THEN <<>> ELSE Append(Vector(f, n - 1), f[n])

\* Iterator::sum::<f64>() over a sequence: a left fold of + from 0.0
RECURSIVE FSum(_)
FSum(s) == IF s = <<>> THEN 0 ELSE FAdd(FSum(SubSeq(s, 1, Len(s) - 1)), s[Len(s)])

(***************************************************************************)
(* The update formulas (src/src/lib.rs)                                    *)
(***************************************************************************)
\* update3 with the closing `+ avg_rating` lost: the fault against which the
\* conservation of the rating sum is measured
update3_without_avg_rating(alpha, games, rating, avg_rating, avg_score) ==
  FAdd(FMul(FSub(FSub(rating, avg_rating), avg_score),
            FExp(FMul(FNeg(alpha), games))),
       avg_score)

\* update3: (rating - avg_rating - avg_score) * exp(-alpha * games) + avg_rating + avg_score
update3(alpha, games, rating, avg_rating, avg_score) ==
  FAdd(FAdd(FMul(FSub(FSub(rating, avg_rating), avg_score),
                 FExp(FMul(FNeg(alpha), games))),
            avg_rating),
       avg_score)

\* update_n
update_n(alpha, games, rating, avg_rating, total_score, player_count) ==
  LET offset == FAdd(avg_rating,
                     FMul(FDiv(FDiv(3 * Scale, player_count),
                               FSub(player_count, 2 * Scale)),
                          total_score))
      decay == FExp(FMul(FMul(FDiv(FMul(FNeg(player_count),
                                        FSub(player_count, 2 * Scale)),
                                   3 * Scale),
                              alpha),
                         games))
  IN FAdd(FMul(FSub(rating, offset), decay), offset)

\* rating_change: the three new ratings; ok is FALSE when the assertion
\* new_ratings[i].is_finite() fails (the call panics)
rating_change(alpha, games, ratings, scores) ==
  LET New(average_rating) ==
        Vector([i \in 1..3 |->
                  update3(alpha, FromInt(games), ratings[i], average_rating,
                          FDiv(FromInt(scores[i]), FromInt(games)))], 3)
      Asserted(new_ratings) ==
        [ok |-> \A i \in 1..3 : IsFinite(new_ratings[i]), v |-> new_ratings]
  IN Asserted(New(FDiv(FSum(ratings), 3 * Scale)))

(***************************************************************************)
(* update_generic.  pseudo_inverse and exp are nalgebra's; they are        *)
(* modelled by their mathematical value on the matrices the program        *)
(* builds: symmetric, integer, off-diagonal entries >= 0, every row sum    *)
(* <= 0.  With z the part of scores in the null space of L and t = alpha/3 *)
(*   new = exp(tL) r + 3 (sum_{k>=1} t^k L^(k-1) / k!) scores - 3 t z      *)
(* which equals exp(tL) (r - steady) + steady, steady = -3 L^+ scores.     *)
(* nalgebra refuses the singular value decomposition of an empty matrix    *)
(* with a panic; the callers below raise it.                               *)
(* The sums are formed at resolution SeriesScale and the result rounded.   *)
(***************************************************************************)
SeriesScale == 10000
SeriesTerms == 12

RECURSIVE SumTo(_, _)
\* f[1] + ... + f[n]
SumTo(f, n) == IF n = 0 THEN 0 ELSE SumTo(f, n - 1) + f[n]

\* the sum of f[i] over the indices i <= n that are in S
SumOver(f, n, S) == SumTo([i \in 1..n |-> IF i \in S THEN f[i] ELSE 0], n)

\* a * b / d rounded, formed without leaving 32 bits (d > 0)
MulDiv(a, b, d) ==
  LET m == Abs(a)
      c == Abs(b)
  IN Sgn(a) * Sgn(b) * ((m \div d) * c + RoundDivNat((m % d) * c, d))

\* the matrix-vector product L v
MatVec(L, v, n) == Vector([i \in 1..n |-> SumTo([j \in 1..n |-> L[i][j] * v[j]], n)], n)

\* x, held to the range of the finite values (a term beyond it overflows the result)
Saturate(x) ==
  IF Abs(x) > MaxFinite * (SeriesScale \div Scale)
  THEN Sgn(x) * (MaxFinite * (SeriesScale \div Scale) + 1)
  ELSE x

\* sum over k >= k0 of c_k, where c_k0 = v and c_(k+1) = (alpha / 3) L c_k / (k + 1)
RECURSIVE Series(_, _, _, _, _)
Series(L, n, alpha, v, k) ==
  IF k > SeriesTerms \/ (\A i \in 1..n : v[i] = 0) THEN v
  ELSE LET Term(Lv) == Vector([i \in 1..n |->
                                  Saturate(MulDiv(Lv[i], alpha, 3 * Scale * (k + 1)))], n)
           Plus(rest) == Vector([i \in 1..n |-> v[i] + rest[i]], n)
       IN Plus(Series(L, n, alpha, Term(MatVec(L, v, n)), k + 1))

\* the indices joined to i by non-zero off-diagonal entries of L
RECURSIVE Component(_, _, _)
Component(L, n, C) ==
  LET D == C \cup {j \in 1..n : \E i \in C : i # j /\ L[i][j] # 0}
  IN IF D = C THEN C ELSE Component(L, n, D)

\* the projection of scores onto the null space of L: on a component whose
\* rows all sum to zero, the mean of the scores over it; zero elsewhere
NullPart(L, n, scores) ==
  Vector([i \in 1..n |->
            LET C == Component(L, n, {i})
            IN IF \A c \in C : SumTo(L[c], n) = 0
               THEN RoundDiv(SumOver(scores, n, C), Cardinality(C))
               ELSE 0], n)

update_generic(alpha, laplace_matrix, starting_ratings, scores) ==
  LET n == Len(starting_ratings)
      up == SeriesScale \div Scale
      r == Vector([i \in 1..n |-> starting_ratings[i] * up], n)
      T(v) == Vector([i \in 1..n |-> MulDiv(v[i], alpha, 3 * Scale)], n)
      Ps(s) == Series(laplace_matrix, n, alpha, T(s), 1)
      tz(s) == T(NullPart(laplace_matrix, n, s))
      New(Er, P, t) ==
        Vector([i \in 1..n |-> Fl(RoundDiv(Er[i] + 3 * P[i] - 3 * t[i], up))], n)
      From(s) == New(Series(laplace_matrix, n, alpha, r, 0), Ps(s), tz(s))
  IN IF IsFinite(alpha) /\ \A i \in 1..n : IsFinite(starting_ratings[i])
     THEN From(Vector([i \in 1..n |-> scores[i] * SeriesScale], n))
     ELSE Vector([i \in 1..n |-> NaN], n)

(***************************************************************************)
(* Data (src/src/lib.rs)                                                   *)
(*                                                                         *)
(* A name is the sequence of its non-empty space-separated words, a word   *)
(* the sequence of its letters.  A HashMap<String, _> is a function on the *)
(* set of its keys; the order in which it is iterated is not a property of *)
(* its contents (std's RandomState seeds every map afresh), so whoever     *)
(* iterates one is handed an order: a sequence enumerating the keys.       *)
(***************************************************************************)
\* Option::None for last_date; a date is a day number >= 1, and None < Some(d)
NoDate == 0

\* impl Default for Config
DefaultConfig == [spread |-> 50 * Scale, base_rating |-> 100 * Scale, starting_alpha |-> 20]

\* Config::rating_from_display
rating_from_display(config, display) == FDiv(FSub(display, config.base_rating), config.spread)

\* Config::rating_to_display
rating_to_display(config, rating) == FAdd(FMul(rating, config.spread), config.base_rating)

\* Config::α_from_display
alpha_from_display(config, display) == FDiv(display, config.spread)

\* Config::α_to_display
alpha_to_display(config, alpha) == FMul(alpha, config.spread)

\* the variants of enum Change
AddPlayerChange(name, rating) == [type |-> "AddPlayer", name |-> name, rating |-> rating]
PlayChange(game_count, date, outcomes) ==
  [type |-> "Play", game_count |-> game_count, date |-> date, outcomes |-> outcomes]
ArbitraryChange(date, scores, game_collections) ==
  [type |-> "Arbitrary", date |-> date, scores |-> scores,
   game_collections |-> game_collections]
CircularChange(date, outcomes, game_count) ==
  [type |-> "Circular", date |-> date, outcomes |-> outcomes, game_count |-> game_count]
SymmetricChange(date, scores, round_count) ==
  [type |-> "Symmetric", date |-> date, scores |-> scores, round_count |-> round_count]
AdjustAlphaChange(new) == [type |-> "AdjustAlpha", new_alpha |-> new]

Outcome(player, score) == [player |-> player, score |-> score]
GameCollection(p0, p1, game_count) == [players |-> <<p0, p1>>, game_count |-> game_count]

\* Change::date
ChangeDate(change) ==
  IF change.type \in {"AddPlayer", "AdjustAlpha"} THEN NoDate ELSE change.date

Max(a, b) == IF a >= b THEN a ELSE b

\* the sequences that enumerate the finite set S once each: the orders in
\* which a map with key set S can be iterated
Orders(S) ==
  {o \in [1..Cardinality(S) -> S] : \A i, j \in 1..Cardinality(S) : o[i] = o[j] => i = j}

\* the keys a change holds in a HashMap
MapKeys(change) ==
  IF change.type \in {"Arbitrary", "Symmetric"} THEN DOMAIN change.scores ELSE {}

\* Evaluation::new
NewEvaluation(alpha) == [alpha |-> alpha, ratings |-> <<>>, last_date |-> NoDate]

\* a panic: the call does not return; at is the Evaluation as the panic leaves it
Panic(why, self) == [panic |-> why, at |-> self]
IsPanic(e) == "panic" \in DOMAIN e

\* ratings with ratings[names[i]] = values[i] written for i = 1, 2, ..., in this order
RECURSIVE WriteAll(_, _, _)
WriteAll(ratings, names, values) ==
  IF names = <<>> THEN ratings
  ELSE WriteAll([ratings EXCEPT ![names[1]] = values[1]], Tail(names), Tail(values))

\* the Play arm reading the ratings with a default (unwrap_or(0.0)) and
\* writing them with insert: the fault against which the failure on a missing
\* player is measured
ChangePlay_with_default(self, play) ==
  LET players == [i \in 1..3 |-> play.outcomes[i].player]
      selected_ratings == [i \in 1..3 |-> IF players[i] \in DOMAIN self.ratings
                                          THEN self.ratings[players[i]] ELSE 0]
      scores == [i \in 1..3 |-> play.outcomes[i].score]
      known == [name \in DOMAIN self.ratings \cup {players[i] : i \in 1..3} |->
                  IF name \in DOMAIN self.ratings THEN self.ratings[name] ELSE 0]
      Assign(new_ratings) ==
        IF ~new_ratings.ok THEN Panic("rating not finite", self)
        ELSE [self EXCEPT !.last_date = Max(play.date, self.last_date),
                          !.ratings = WriteAll(known, players, new_ratings.v)]
  IN Assign(rating_change(self.alpha, play.game_count, selected_ratings, scores))

\* Evaluation::change, Play arm
ChangePlay(self, play) ==
  LET players == [i \in 1..3 |-> play.outcomes[i].player]
  IN IF \E i \in 1..3 : players[i] \notin DOMAIN self.ratings THEN Panic("missing player", self)
     ELSE LET selected_ratings == [i \in 1..3 |-> self.ratings[players[i]]]
              scores == [i \in 1..3 |-> play.outcomes[i].score]
              Assign(new_ratings) ==
                IF ~new_ratings.ok THEN Panic("rating not finite", self)
                ELSE [self EXCEPT !.last_date = Max(play.date, self.last_date),
                                  !.ratings = WriteAll(self.ratings, players, new_ratings.v)]
          IN Assign(rating_change(self.alpha, play.game_count, selected_ratings, scores))

\* the Symmetric arm asserting scores.len() >= 2: the fault against which the
\* guard on the group size is measured
ChangeSymmetric_from_two(self, symmetric, order) ==
  LET n == Cardinality(DOMAIN symmetric.scores)
  IN IF n < 2 THEN Panic("scores.len() >= 3", self)
     ELSE IF \E p \in DOMAIN symmetric.scores : p \notin DOMAIN self.ratings
          THEN Panic("missing player", self)
     ELSE LET rating_sum == FSum([i \in 1..n |-> self.ratings[order[i]]])
              average_rating == FDiv(rating_sum, FromInt(n))
              new_ratings == Vector([i \in 1..n |->
                 update_n(self.alpha, FromInt(symmetric.round_count), self.ratings[order[i]],
                          average_rating, FromInt(symmetric.scores[order[i]]), FromInt(n))], n)
          IN [self EXCEPT !.ratings = WriteAll(self.ratings, order, new_ratings)]

\* Evaluation::change, Symmetric arm; order is the order symmetric.scores iterates in
ChangeSymmetric(self, symmetric, order) ==
  LET n == Cardinality(DOMAIN symmetric.scores)
  IN IF n < 3 THEN Panic("scores.len() >= 3", self)
     ELSE IF \E p \in DOMAIN symmetric.scores : p \notin DOMAIN self.ratings
          THEN Panic("missing player", self)
     ELSE LET rating_sum == FSum([i \in 1..n |-> self.ratings[order[i]]])
              average_rating == FDiv(rating_sum, FromInt(n))
              new_ratings == Vector([i \in 1..n |->
                 update_n(self.alpha, FromInt(symmetric.round_count), self.ratings[order[i]],
                          average_rating, FromInt(symmetric.scores[order[i]]), FromInt(n))], n)
          IN [self EXCEPT !.ratings = WriteAll(self.ratings, order, new_ratings)]

\* the matrix of apply_arbtrarity_outcomes; index[p] is player_to_index[p]
ArbitraryMatrix(n, index, game_collections) ==
  LET Hits(a, b) == {k \in 1..Len(game_collections) :
                       /\ index[game_collections[k].players[1]] = a
                       /\ index[game_collections[k].players[2]] = b}
      Count(K) == SumOver([k \in 1..Len(game_collections) |-> game_collections[k].game_count],
                          Len(game_collections), K)
      Ends(a) == {k \in 1..Len(game_collections) :
                       index[game_collections[k].players[1]] = a}
      Ends2(a) == {k \in 1..Len(game_collections) :
                       index[game_collections[k].players[2]] = a}
  IN Vector([i \in 1..n |-> Vector([j \in 1..n |->
        Count(Hits(i, j)) + Count(Hits(j, i))
        - (IF i = j THEN Count(Ends(i)) + Count(Ends2(i)) ELSE 0)], n)], n)

\* Evaluation::apply_arbtrarity_outcomes; order is the order outcomes.scores iterates in
apply_arbtrarity_outcomes(self, outcomes, order) ==
  LET n == Len(order)
      index == [p \in DOMAIN outcomes.scores |-> CHOOSE i \in 1..n : order[i] = p]
      gcs == outcomes.game_collections
  IN IF \E p \in DOMAIN outcomes.scores : p \notin DOMAIN self.ratings
     THEN Panic("missing player", self)
     ELSE IF \E k \in 1..Len(gcs) : \E e \in 1..2 : gcs[k].players[e] \notin DOMAIN outcomes.scores
          THEN Panic("player_to_index: missing key", self)
     ELSE IF n = 0 THEN Panic("SVD of an empty matrix", self)
     ELSE LET initial_ratings == Vector([i \in 1..n |-> self.ratings[order[i]]], n)
              matrix == ArbitraryMatrix(n, index, gcs)
              scores == Vector([i \in 1..n |-> outcomes.scores[order[i]]], n)
              new_ratings == update_generic(self.alpha, matrix, initial_ratings, scores)
          IN [self EXCEPT !.ratings = WriteAll(self.ratings, order, new_ratings)]

\* a matrix with a window at each of the n positions for each of game_count
\* rounds: the fault against which the one window of a game is measured
CircularMatrix_every_position(n, game_count) ==
  Vector([j0 \in 1..n |-> Vector([j1 \in 1..n |->
     Cardinality({t \in (0..(game_count * n - 1)) \X (0..2) \X (0..2) :
                    /\ (t[1] + t[2]) % n = j0 - 1
                    /\ (t[1] + t[3]) % n = j1 - 1})
     * (IF j0 = j1 THEN 0 - 2 ELSE 1)], n)], n)

\* the matrix of apply_circular_outcomes, for n >= 1 outcomes
CircularMatrix(n, game_count) ==
  Vector([j0 \in 1..n |-> Vector([j1 \in 1..n |->
     Cardinality({t \in (0..(game_count - 1)) \X (0..2) \X (0..2) :
                    /\ (t[1] + t[2]) % n = j0 - 1
                    /\ (t[1] + t[3]) % n = j1 - 1})
     * (IF j0 = j1 THEN 0 - 2 ELSE 1)], n)], n)

\* Evaluation::apply_circular_outcomes
apply_circular_outcomes(self, circular) ==
  LET n == Len(circular.outcomes)
      players == [i \in 1..n |-> circular.outcomes[i].player]
  IN IF \E i \in 1..n : players[i] \notin DOMAIN self.ratings THEN Panic("missing player", self)
     ELSE IF n = 0 /\ circular.game_count > 0 THEN Panic("remainder with a divisor of zero", self)
     ELSE IF n = 0 THEN Panic("SVD of an empty matrix", self)
     ELSE LET initial_ratings == Vector([i \in 1..n |-> self.ratings[players[i]]], n)
              matrix == CircularMatrix(n, circular.game_count)
              scores == Vector([i \in 1..n |-> circular.outcomes[i].score], n)
              new_ratings == update_generic(self.alpha, matrix, initial_ratings, scores)
          IN [self EXCEPT !.ratings = WriteAll(self.ratings, players, new_ratings)]

\* HashMap::insert
Insert(map, key, value) == [k \in DOMAIN map \cup {key} |-> IF k = key THEN value ELSE map[k]]

\* the match with AdjustAlpha taken as a factor on the alpha in force (the
\* command is called score-multiplier): the fault against which the effect of
\* AdjustAlpha is measured
ChangeArm_alpha_multiplied(self, change, order) ==
  CASE change.type = "AddPlayer" ->
         [self EXCEPT !.ratings = Insert(self.ratings, change.name, change.rating)]
    [] change.type = "Play" -> ChangePlay(self, change)
    [] change.type = "Arbitrary" -> apply_arbtrarity_outcomes(self, change, order)
    [] change.type = "Circular" -> apply_circular_outcomes(self, change)
    [] change.type = "Symmetric" -> ChangeSymmetric(self, change, order)
    [] change.type = "AdjustAlpha" -> [self EXCEPT !.alpha = FMul(@, change.new_alpha)]

\* the match of Evaluation::change
ChangeArm(self, change, order) ==
  CASE change.type = "AddPlayer" ->
         [self EXCEPT !.ratings = Insert(self.ratings, change.name, change.rating)]
    [] change.type = "Play" -> ChangePlay(self, change)
    [] change.type = "Arbitrary" -> apply_arbtrarity_outcomes(self, change, order)
    [] change.type = "Circular" -> apply_circular_outcomes(self, change)
    [] change.type = "Symmetric" -> ChangeSymmetric(self, change, order)
    [] change.type = "AdjustAlpha" -> [self EXCEPT !.alpha = change.new_alpha]

\* Evaluation::change closing with last_date = change.date() for a dated
\* change, without the max: the fault against which the running maximum of
\* last_date is measured
Change_dated_last(self, change, order) ==
  LET Dated(e) == IF IsPanic(e) \/ ChangeDate(change) = NoDate THEN e
                  ELSE [e EXCEPT !.last_date = ChangeDate(change)]
  IN Dated(ChangeArm(self, change, order))

\* Evaluation::change; order is the iteration order of the change's map, if it has one
Change(self, change, order) ==
  LET Dated(e) == IF IsPanic(e) THEN e
                  ELSE [e EXCEPT !.last_date = Max(e.last_date, ChangeDate(change))]
  IN Dated(ChangeArm(self, change, order))

\* Data::evaluate; orders[i] is the iteration order of the map of history[i]
RECURSIVE EvaluateFrom(_, _, _)
EvaluateFrom(evaluation, history, orders) ==
  IF history = <<>> \/ IsPanic(evaluation) THEN evaluation
  ELSE EvaluateFrom(Change(evaluation, history[1], orders[1]), Tail(history), Tail(orders))

Evaluate(data, orders) ==
  EvaluateFrom(NewEvaluation(data.config.starting_alpha), data.history, orders)

\* the ways the maps of a history can iterate
RECURSIVE HistoryOrders(_)
HistoryOrders(history) ==
  IF history = <<>> THEN {<<>>}
  ELSE {<<o>> \o rest : o \in Orders(MapKeys(history[1])), rest \in HistoryOrders(Tail(history))}

(***************************************************************************)
(* The inputs of the model                                                 *)
(***************************************************************************)
Abe == << <<"A", "b", "e">> >>
Bo == << <<"B", "o">> >>
Cy == << <<"C", "y">> >>
Di == << <<"D", "i">> >>
Abraham == << <<"A", "b", "r", "a", "h", "a", "m">> >>

\* the most changes a replay folds
MaxFold == 5

\* the longest history a command extends
MaxHistory == 3

\* the map with the given keys and values
MapOf(keys, values) == [k \in {keys[i] : i \in 1..Len(keys)} |->
                          values[CHOOSE i \in 1..Len(keys) : keys[i] = k]]

Outcomes(players, scores) == [i \in 1..Len(players) |-> Outcome(players[i], scores[i])]

\* the changes a replayed history is made of
ReplayAddPlayers ==
  {AddPlayerChange(Abe, r) : r \in {0, 10000}}
  \cup {AddPlayerChange(n, r) : n \in {Bo, Cy}, r \in {0, 4}}
  \cup {AddPlayerChange(Di, 7)}
ReplayPlays ==
  {PlayChange(1, 1, Outcomes(<<Abe, Bo, Cy>>, <<4, 0 - 2, 0 - 2>>)),
   PlayChange(2, 2, Outcomes(<<Bo, Cy, Abe>>, <<0 - 3, 1, 2>>)),
   PlayChange(0, 1, Outcomes(<<Abe, Bo, Cy>>, <<4, 0 - 2, 0 - 2>>)),
   PlayChange(1, 2, Outcomes(<<Abe, Abe, Bo>>, <<4, 0 - 2, 0 - 2>>)),
   PlayChange(1, 1, Outcomes(<<Abe, Bo, Cy>>, <<3, 0, 0>>))}
ReplayArbitraries ==
  {ArbitraryChange(1, MapOf(<<Abe, Bo, Cy>>, <<4, 0 - 2, 0 - 2>>),
                   <<GameCollection(Abe, Bo, 1), GameCollection(Bo, Cy, 1)>>),
   ArbitraryChange(2, MapOf(<<Abe, Bo>>, <<2, 0 - 2>>), <<GameCollection(Abe, Bo, 2)>>),
   ArbitraryChange(1, MapOf(<<Abe, Bo>>, <<2, 0 - 2>>), <<GameCollection(Bo, Cy, 1)>>)}
ReplayCirculars ==
  {CircularChange(2, Outcomes(<<Abe, Bo, Cy>>, <<4, 0 - 2, 0 - 2>>), 1),
   CircularChange(1, Outcomes(<<Bo, Abe>>, <<0 - 2, 2>>), 2),
   CircularChange(1, Outcomes(<<Abe, Bo, Cy>>, <<4, 0 - 2, 0 - 2>>), 0),
   CircularChange(2, Outcomes(<<Abe, Bo, Cy, Di>>, <<3, 0 - 1, 0 - 1, 0 - 1>>), 5)}
ReplaySymmetrics ==
  {SymmetricChange(1, MapOf(<<Abe, Bo, Cy>>, <<4, 0 - 2, 0 - 2>>), 1),
   SymmetricChange(2, MapOf(<<Abe, Bo, Cy>>, <<0 - 1, 0, 1>>), 2),
   SymmetricChange(1, MapOf(<<Abe, Bo>>, <<2, 0 - 2>>), 1),
   SymmetricChange(2, MapOf(<<Abe, Bo, Cy>>, <<4, 0 - 2, 0 - 2>>), 0)}
ReplayAlphas == {0 - 500}
StartingAlphas == {20, 100}

(***************************************************************************)
(* The state                                                               *)
(***************************************************************************)
VARIABLES
  disk,     \* the ledger file: [config, history]
  last,     \* the last command run: its name and how it ended
  count,    \* Replay: the number of changes Data::evaluate has folded
  change,   \* Replay: the change folded last
  prev,     \* Replay: the evaluation before it was folded
  ev,       \* Replay: the evaluation after it
  given_name,     \* Matching: the name given to match_names, a string
  given_pattern,  \* Matching: the pattern given to it, a string
  matching,       \* Matching: what match_names returned, once it has
  on_disk,  \* Race: the content of the ledger file, a sequence of units
  pc,       \* Race: where each of the two invocations is
  loaded,   \* Race: the Data each invocation read
  job       \* Race: the command each invocation runs

vars == <<disk, last, count, change, prev, ev, given_name, given_pattern, matching,
          on_disk, pc, loaded, job>>

\* impl Default for Data
DefaultData == [config |-> DefaultConfig, history |-> <<>>]

NoChange == [type |-> "none"]
NoCommand == [cmd |-> "none", outcome |-> "none"]
\* match_names is not under test
NoMatching ==
  given_name = <<>> /\ given_pattern = <<>> /\ matching = [some |-> FALSE]
\* no two invocations run side by side
NoRace == on_disk = <<>> /\ pc = <<>> /\ loaded = <<>> /\ job = <<>>

(***************************************************************************)
(* Replay: Data::evaluate as a state machine, one step per iteration of    *)
(* `for change in &self.history`.  The history and starting_alpha are the  *)
(* inputs; a panic ends the run.                                           *)
(***************************************************************************)
ReplayInit ==
  /\ disk = DefaultData
  /\ last = NoCommand
  /\ count = 0
  /\ change = NoChange
  /\ \E a \in StartingAlphas :
       /\ prev = NewEvaluation(a)
       /\ ev = NewEvaluation(a)
  /\ NoMatching
  /\ NoRace

\* the loop has a next change: the history is not at its end, and no earlier
\* iteration panicked
Running == count < MaxFold /\ ~IsPanic(ev)

\* one iteration of the loop on the change c; o is the order in which the map
\* of c iterates
Fold(c, o) ==
  /\ count' = count + 1
  /\ change' = c
  /\ prev' = ev
  /\ ev' = Change(ev, c, o)
  /\ UNCHANGED <<disk, last, given_name, given_pattern, matching, on_disk, pc, loaded, job>>

FoldAddPlayer ==
  /\ Running
  /\ \E c \in ReplayAddPlayers : Fold(c, <<>>)
FoldPlay ==
  /\ Running
  /\ \E c \in ReplayPlays : Fold(c, <<>>)
FoldArbitrary ==
  /\ Running
  /\ \E c \in ReplayArbitraries : \E o \in Orders(MapKeys(c)) : Fold(c, o)
FoldCircular ==
  /\ Running
  /\ \E c \in ReplayCirculars : Fold(c, <<>>)
FoldSymmetric ==
  /\ Running
  /\ \E c \in ReplaySymmetrics : \E o \in Orders(MapKeys(c)) : Fold(c, o)
FoldAdjustAlpha ==
  /\ Running
  /\ \E a \in ReplayAlphas : Fold(AdjustAlphaChange(a), <<>>)

ReplayNext ==
  \/ FoldAddPlayer
  \/ FoldPlay
  \/ FoldArbitrary
  \/ FoldCircular
  \/ FoldSymmetric
  \/ FoldAdjustAlpha

ReplaySpec == ReplayInit /\ [][ReplayNext]_vars

(***************************************************************************)
(* The commands (src/src/main.rs).  A command is one process: it reads the *)
(* ledger, works on the Data in its memory, and writes the ledger or ends  *)
(* without writing.  The result of a command is how it ended (outcome),    *)
(* the ledger it leaves (disk) and the Data in its memory when it ended    *)
(* (memory).  orders gives the iteration order of every map of the history *)
(* read, as this process lays them out; a name or a pattern is taken       *)
(* without redundant spaces.                                               *)
(***************************************************************************)
\* Option<T>
None == [some |-> FALSE]
Some(x) == [some |-> TRUE, value |-> x]

\* str::starts_with
starts_with(word, prefix) ==
  Len(prefix) <= Len(word) /\ SubSeq(word, 1, Len(prefix)) = prefix

\* a match that does not pass the name's word once a pattern word matched it,
\* so that one word may serve two pattern words: the fault against which the
\* matching is measured
RECURSIVE match_names_reusing_word(_, _)
match_names_reusing_word(matched, pattern) ==
  IF pattern = <<>> THEN TRUE
  ELSE IF matched = <<>> THEN FALSE
  ELSE IF starts_with(matched[1], pattern[1])
       THEN match_names_reusing_word(matched, Tail(pattern))
  ELSE match_names_reusing_word(Tail(matched), pattern)

\* match_names: the words of pattern are prefixes of words of matched, in order
RECURSIVE match_names(_, _)
match_names(matched, pattern) ==
  IF pattern = <<>> THEN TRUE
  ELSE IF matched = <<>> THEN FALSE
  ELSE IF starts_with(matched[1], pattern[1])
       THEN match_names(Tail(matched), Tail(pattern))
  ELSE match_names(Tail(matched), pattern)

\* str.split(' ').filter(|x| !x.is_empty()) on a string, a sequence of
\* characters: word is the run of characters since the last space
RECURSIVE SplitFrom(_, _, _)
SplitFrom(str, word, words) ==
  LET Closed == IF word = <<>> THEN words ELSE Append(words, word)
  IN IF str = <<>> THEN Closed
     ELSE IF Head(str) = " " THEN SplitFrom(Tail(str), <<>>, Closed)
     ELSE SplitFrom(Tail(str), Append(word, Head(str)), words)

Split(str) == SplitFrom(str, <<>>, <<>>)

\* fn match_names on the two strings
MatchNamesOfStrings(matched_str, pattern_str) ==
  match_names(Split(matched_str), Split(pattern_str))

\* Evaluation::matching_names
matching_names(self, pattern) ==
  IF pattern \in DOMAIN self.ratings THEN {pattern}
  ELSE {name \in DOMAIN self.ratings : match_names(name, pattern)}

\* try_find_name, given eval = data.evaluate() (which every call recomputes)
try_find_name(eval, name) ==
  LET matches == matching_names(eval, name)
  IN IF Cardinality(matches) = 1 THEN Some(CHOOSE m \in matches : TRUE) ELSE None

\* how a command ends
Ended(outcome, file, memory) == [outcome |-> outcome, disk |-> file, memory |-> memory]
\* a return before write_data
Returned(file) == Ended("returned", file, file)
\* a panic with data in memory
Panicked(file, data) == Ended("panicked", file, data)
\* write_data(path, &data), then the end of the command
Written(data) == Ended("written", data, data)

\* Vec::push on the history
Push(data, c) == [data EXCEPT !.history = Append(@, c)]

\* the tail of a rated command with write_data moved before the second
\* evaluate: the fault against which the atomicity of a failure is measured
Record_write_first(file, c, orders, o) ==
  LET After(data) == IF IsPanic(Evaluate(data, Append(orders, o)))
                     THEN Ended("panicked", data, data)
                     ELSE Written(data)
  IN IF IsPanic(Evaluate(file, orders)) THEN Panicked(file, file)
     ELSE After(Push(file, c))

\* the tail of play, arbitrary, circular and symmetric: evaluate, append the
\* change c, evaluate, print, write; o is the order of the map of c
Record(file, c, orders, o) ==
  LET After(data) == IF IsPanic(Evaluate(data, Append(orders, o))) THEN Panicked(file, data)
                     ELSE Written(data)
  IN IF IsPanic(Evaluate(file, orders)) THEN Panicked(file, file)
     ELSE After(Push(file, c))

\* i64, narrowed: the scores of a command line are integers of this width
I64Max == 15
I64Min == 0 - I64Max - 1
\* the value an addition leaves when overflow is not checked
Wrapping(x) == ((x - I64Min) % (I64Max - I64Min + 1)) + I64Min

\* fn play; overflow_checks tells whether the build checks integer overflow,
\* in which case a sum that leaves i64 panics, or lets it wrap around
play(file, param, today, orders, overflow_checks) ==
  LET first_two == param.score_1 + param.score_2
      Overflows == \/ Wrapping(first_two) # first_two
                   \/ Wrapping(first_two + param.score_3) # first_two + param.score_3
      Found(player_1, player_2, player_3) ==
        IF ~player_1.some \/ ~player_2.some \/ ~player_3.some THEN Returned(file)
        ELSE IF Overflows /\ overflow_checks THEN Panicked(file, file)
        ELSE IF Wrapping(Wrapping(first_two) + param.score_3) # 0 THEN Returned(file)
        ELSE Record(file,
                    PlayChange(param.game_count,
                               IF param.date.some THEN param.date.value ELSE today,
                               <<Outcome(player_1.value, param.score_1),
                                 Outcome(player_2.value, param.score_2),
                                 Outcome(player_3.value, param.score_3)>>),
                    orders, <<>>)
      With(eval) ==
        IF IsPanic(eval) THEN Panicked(file, file)
        ELSE Found(try_find_name(eval, param.player_1),
                   try_find_name(eval, param.player_2),
                   try_find_name(eval, param.player_3))
  IN With(Evaluate(file, orders))

\* the first input loop of arbitrary: one line per element of lines
RECURSIVE ReadScores(_, _, _)
ReadScores(eval, lines, scores) ==
  IF lines = <<>> THEN scores
  ELSE LET player == try_find_name(eval, lines[1].player)
       IN ReadScores(eval, Tail(lines),
            IF ~player.some THEN scores
            ELSE Insert(scores, player.value,
                        (IF player.value \in DOMAIN scores THEN scores[player.value] ELSE 0)
                        + lines[1].score))

\* the second input loop of arbitrary
RECURSIVE ReadGameCollections(_, _, _)
ReadGameCollections(eval, lines, game_collections) ==
  IF lines = <<>> THEN game_collections
  ELSE LET p0 == try_find_name(eval, lines[1].player_1)
           p1 == try_find_name(eval, lines[1].player_2)
       IN ReadGameCollections(eval, Tail(lines),
            IF ~p0.some \/ ~p1.some THEN game_collections
            ELSE Append(game_collections,
                        GameCollection(p0.value, p1.value, lines[1].games)))

\* the keys of a new map in the order it iterates them, when it favours the
\* typed entries in the order o (a permutation of their indices); names[i] is
\* the key the i-th entry resolved to, if it did
RECURSIVE KeyOrder(_, _)
KeyOrder(names, o) ==
  IF o = <<>> THEN <<>>
  ELSE LET name == names[o[Len(o)]]
           Add(before) ==
             IF ~name.some \/ (\E i \in 1..Len(before) : before[i] = name.value) THEN before
             ELSE Append(before, name.value)
       IN Add(KeyOrder(names, SubSeq(o, 1, Len(o) - 1)))

\* fn arbitrary; param.scores and param.game_collections are the lines typed
arbitrary(file, param, today, orders, o) ==
  LET n == Len(param.scores)
      With(eval) ==
        IF IsPanic(eval) THEN Panicked(file, file)
        ELSE Record(file,
                    ArbitraryChange(IF param.date.some THEN param.date.value ELSE today,
                                    ReadScores(eval, param.scores, <<>>),
                                    ReadGameCollections(eval, param.game_collections, <<>>)),
                    orders,
                    KeyOrder(Vector([i \in 1..n |->
                                       try_find_name(eval, param.scores[i].player)], n), o))
  IN With(Evaluate(file, orders))

\* fn circular
circular(file, param, today, orders) ==
  LET n == Len(param.scores)
      Found(found) ==
        IF \E i \in 1..n : ~found[i].some THEN Returned(file)
        ELSE Record(file,
                    CircularChange(IF param.date.some THEN param.date.value ELSE today,
                                   [i \in 1..n |->
                                      Outcome(found[i].value, param.scores[i].score)],
                                   param.game_count),
                    orders, <<>>)
      With(eval) ==
        IF IsPanic(eval) THEN Panicked(file, file)
        ELSE Found(Vector([i \in 1..n |-> try_find_name(eval, param.scores[i].player)], n))
  IN With(Evaluate(file, orders))

\* collect::<HashMap<_, _>>(): a later pair replaces an earlier one with its key
RECURSIVE Collect(_, _)
Collect(pairs, map) ==
  IF pairs = <<>> THEN map
  ELSE Collect(Tail(pairs), Insert(map, pairs[1][1], pairs[1][2]))

\* fn symmetric
symmetric(file, param, today, orders, o) ==
  LET n == Len(param.scores)
      Found(found) ==
        IF \E i \in 1..n : ~found[i].some THEN Returned(file)
        ELSE Record(file,
                    SymmetricChange(IF param.date.some THEN param.date.value ELSE today,
                                    Collect([i \in 1..n |->
                                               <<found[i].value, param.scores[i].score>>],
                                            <<>>),
                                    param.round_count),
                    orders, KeyOrder(found, o))
      With(eval) ==
        IF IsPanic(eval) THEN Panicked(file, file)
        ELSE Found(Vector([i \in 1..n |-> try_find_name(eval, param.scores[i].player)], n))
  IN With(Evaluate(file, orders))

\* fn new; the ledger file exists
new(file, param, answer) ==
  IF ~param.no_confirm /\ ~answer THEN Returned(file) ELSE Written(DefaultData)

\* Data::add_player_display
add_player_display(data, name, display) ==
  Push(data, AddPlayerChange(name, rating_from_display(data.config, display)))

\* fn add_player
add_player(file, param) ==
  Written(add_player_display(file, param.player,
                             IF param.rating.some THEN param.rating.value
                             ELSE file.config.base_rating))

\* fn ratings: the sort unwraps partial_cmp, which is None on a NaN
ratings(file, orders) ==
  LET With(eval) ==
        IF IsPanic(eval) THEN Panicked(file, file)
        ELSE IF Cardinality(DOMAIN eval.ratings) >= 2
                /\ \E name \in DOMAIN eval.ratings : IsNaN(eval.ratings[name])
             THEN Panicked(file, file)
        ELSE Ended("printed", file, file)
  IN With(Evaluate(file, orders))

\* Data::adjust_score_multiplier
adjust_score_multiplier(data, value) ==
  Push(data, AdjustAlphaChange(alpha_from_display(data.config, value)))

\* fn adjust
adjust(file, param, orders) ==
  CASE param.name = "spread" ->
         IF param.new_value.some
         THEN Written([file EXCEPT !.config.spread = param.new_value.value])
         ELSE Written(file)
    [] param.name = "score-multiplier" ->
         IF param.new_value.some
         THEN Written(adjust_score_multiplier(file, param.new_value.value))
         ELSE IF IsPanic(Evaluate(file, orders)) THEN Panicked(file, file)
         ELSE Written(file)
    [] param.name = "base-rating" ->
         IF param.new_value.some
         THEN Written([file EXCEPT !.config.base_rating = param.new_value.value])
         ELSE Written(file)

\* a pop that takes the first element instead of the last: the fault against
\* which the effect of undo is measured
Pop_first(history) == Tail(history)

\* Vec::pop
Pop(history) == SubSeq(history, 1, Len(history) - 1)

\* fn undo
undo(file, param, answer) ==
  IF file.history = <<>> THEN Ended("exit(1)", file, file)
  ELSE IF ~param.no_confirm /\ ~answer THEN Returned(file)
  ELSE Written([file EXCEPT !.history = Pop(@)])

\* impl Renamable for Outcome
RenameOutcome(outcome, old_name, new_name) ==
  IF outcome.player = old_name THEN [outcome EXCEPT !.player = new_name] ELSE outcome

\* the match of Data::rename with the Circular arm left empty: the fault
\* against which the preservation of the ratings by a rename is measured
RenameChange_skipping_circular(c, old_name, new_name) ==
  CASE c.type = "AddPlayer" -> IF c.name = old_name THEN [c EXCEPT !.name = new_name] ELSE c
    [] c.type = "Play" ->
         [c EXCEPT !.outcomes = [i \in DOMAIN @ |-> RenameOutcome(@[i], old_name, new_name)]]
    [] c.type \in {"Circular", "AdjustAlpha"} -> c

\* one arm of the match in Data::rename
RenameChange(c, old_name, new_name) ==
  CASE c.type = "AddPlayer" -> IF c.name = old_name THEN [c EXCEPT !.name = new_name] ELSE c
    [] c.type \in {"Play", "Circular"} ->
         [c EXCEPT !.outcomes = [i \in DOMAIN @ |-> RenameOutcome(@[i], old_name, new_name)]]
    [] c.type = "AdjustAlpha" -> c

\* Data::rename from the i-th element of the history on: todo!() panics on
\* an Arbitrary or a Symmetric, the elements before it rewritten
RECURSIVE rename(_, _, _, _)
rename(data, i, old_name, new_name) ==
  IF i > Len(data.history) THEN [data |-> data, panic |-> FALSE]
  ELSE IF data.history[i].type \in {"Arbitrary", "Symmetric"}
       THEN [data |-> data, panic |-> TRUE]
  ELSE rename([data EXCEPT !.history[i] = RenameChange(@, old_name, new_name)],
              i + 1, old_name, new_name)

\* fn rename_player
rename_player(file, param, answer, orders) ==
  LET Renamed(renamed) ==
        IF renamed.panic THEN Panicked(file, renamed.data) ELSE Written(renamed.data)
      Found(eval, old_name) ==
        IF ~old_name.some THEN Returned(file)
        ELSE IF param.new_name \in DOMAIN eval.ratings /\ ~answer THEN Returned(file)
        ELSE Renamed(rename(file, 1, old_name.value, param.new_name))
      With(eval) ==
        IF IsPanic(eval) THEN Panicked(file, file)
        ELSE Found(eval, try_find_name(eval, param.old_name))
  IN With(Evaluate(file, orders))

\* fn export_ratings: the table goes to another file; the basis Game is
\* todo!() at a Play
export_ratings(file, param, orders) ==
  IF IsPanic(Evaluate(file, orders)) THEN Panicked(file, file)
  ELSE IF param.basis = "Game" /\ \E i \in 1..Len(file.history) : file.history[i].type = "Play"
       THEN Panicked(file, file)
  ELSE Ended("exported", file, file)

(***************************************************************************)
(* The command lines the model runs                                        *)
(***************************************************************************)
\* the pattern "A"
PatternA == << <<"A">> >>

Days == {1, 2}

Score(player, score) == [player |-> player, score |-> score]

PlayParams ==
  {[game_count |-> 1, player_1 |-> PatternA, score_1 |-> 4, player_2 |-> Bo,
    score_2 |-> 0 - 2, player_3 |-> Cy, score_3 |-> 0 - 2, date |-> Some(2)],
   [game_count |-> 0, player_1 |-> Abe, score_1 |-> 4, player_2 |-> Bo,
    score_2 |-> 0 - 2, player_3 |-> Cy, score_3 |-> 0 - 2, date |-> None],
   [game_count |-> 1, player_1 |-> Abe, score_1 |-> 3, player_2 |-> Bo,
    score_2 |-> 0, player_3 |-> Cy, score_3 |-> 0, date |-> Some(1)],
   [game_count |-> 1, player_1 |-> Abe, score_1 |-> 4, player_2 |-> <<>>,
    score_2 |-> 0 - 2, player_3 |-> Cy, score_3 |-> 0 - 2, date |-> Some(1)],
   [game_count |-> 1, player_1 |-> Abe, score_1 |-> I64Max, player_2 |-> Bo,
    score_2 |-> I64Max, player_3 |-> Cy, score_3 |-> 2, date |-> Some(1)]}
ArbitraryParams ==
  {[date |-> Some(2), scores |-> <<Score(Abe, 2), Score(Bo, 0 - 2)>>,
    game_collections |-> <<[player_1 |-> Abe, player_2 |-> Bo, games |-> 1]>>],
   [date |-> Some(1), scores |-> <<Score(Abe, 2), Score(Bo, 0 - 2)>>,
    game_collections |-> <<[player_1 |-> Bo, player_2 |-> Cy, games |-> 1]>>]}
CircularParams ==
  {[game_count |-> 2, date |-> Some(1),
    scores |-> <<Score(Abe, 4), Score(Bo, 0 - 2), Score(Cy, 0 - 2)>>]}
SymmetricParams ==
  {[round_count |-> 3, date |-> Some(1),
    scores |-> <<Score(Abe, 4), Score(Bo, 0 - 2), Score(Cy, 0 - 2)>>],
   [round_count |-> 1, date |-> Some(2), scores |-> <<Score(Abe, 2), Score(Bo, 0 - 2)>>]}
NewParams == {[no_confirm |-> b] : b \in BOOLEAN}
\* the players registered first, and the one registered again later
Registration ==
  <<[player |-> Abe, rating |-> Some(600 * Scale)],
    [player |-> Bo, rating |-> Some(100200)],
    [player |-> Cy, rating |-> Some(100200)]>>
AddPlayerParams == {[player |-> Cy, rating |-> None]}
ConfigParams ==
  {[name |-> n, new_value |-> None] : n \in {"spread", "score-multiplier", "base-rating"}}
  \cup {[name |-> "spread", new_value |-> Some(50 * Scale)],
        [name |-> "spread", new_value |-> Some(0)],
        [name |-> "score-multiplier", new_value |-> Some(5 * Scale)],
        [name |-> "base-rating", new_value |-> Some(100 * Scale)]}
UndoParams == {[no_confirm |-> b] : b \in BOOLEAN}
RenamePlayerParams ==
  {[old_name |-> PatternA, new_name |-> Abraham],
   [old_name |-> Cy, new_name |-> Bo]}
ExportRatingsParams == {[basis |-> b] : b \in {"Date", "Play", "Game"}}

(***************************************************************************)
(* The ledger and the commands run on it, one after the other              *)
(***************************************************************************)
\* the ledger after add-player has run on param[1], param[2], ...
RECURSIVE Registered(_, _)
Registered(file, param) ==
  IF param = <<>> THEN file
  ELSE Registered(add_player(file, param[1]).disk, Tail(param))

\* the ledger as `new` and the registration of the players leave it
Init ==
  /\ disk = Registered(DefaultData, Registration)
  /\ last = NoCommand
  /\ count = 0
  /\ change = NoChange
  /\ prev = NewEvaluation(DefaultConfig.starting_alpha)
  /\ ev = NewEvaluation(DefaultConfig.starting_alpha)
  /\ NoMatching
  /\ NoRace

\* the command cmd param runs and ends as result says
Run(cmd, param, result) ==
  /\ disk' = result.disk
  /\ last' = [cmd |-> cmd, param |-> param, outcome |-> result.outcome,
              memory |-> result.memory]
  /\ UNCHANGED <<count, change, prev, ev, given_name, given_pattern, matching,
               on_disk, pc, loaded, job>>

\* the history has room for one more change
Room == Len(disk.history) <= MaxHistory

Today(param) == IF param.date.some THEN {param.date.value} ELSE Days

RunPlay ==
  /\ Room
  /\ \E param \in PlayParams : \E today \in Today(param) :
       \E orders \in HistoryOrders(disk.history) : \E overflow_checks \in BOOLEAN :
         Run("play", param, play(disk, param, today, orders, overflow_checks))

RunArbitrary ==
  /\ Room
  /\ \E param \in ArbitraryParams : \E today \in Today(param) :
       \E orders \in HistoryOrders(disk.history) :
         \E o \in Orders(1..Len(param.scores)) :
           Run("arbitrary", param, arbitrary(disk, param, today, orders, o))

RunCircular ==
  /\ Room
  /\ \E param \in CircularParams : \E today \in Today(param) :
       \E orders \in HistoryOrders(disk.history) :
         Run("circular", param, circular(disk, param, today, orders))

RunSymmetric ==
  /\ Room
  /\ \E param \in SymmetricParams : \E today \in Today(param) :
       \E orders \in HistoryOrders(disk.history) :
         \E o \in Orders(1..Len(param.scores)) :
           Run("symmetric", param, symmetric(disk, param, today, orders, o))

RunNew ==
  \E param \in NewParams : \E answer \in BOOLEAN :
    Run("new", param, new(disk, param, answer))

RunAddPlayer ==
  /\ Room
  /\ \E param \in AddPlayerParams : Run("add-player", param, add_player(disk, param))

RunRatings ==
  \E orders \in HistoryOrders(disk.history) : Run("ratings", <<>>, ratings(disk, orders))

RunConfig ==
  \E param \in ConfigParams :
    /\ param.name = "score-multiplier" /\ param.new_value.some => Room
    /\ \E orders \in HistoryOrders(disk.history) :
         Run("config", param, adjust(disk, param, orders))

RunUndo ==
  \E param \in UndoParams : \E answer \in BOOLEAN :
    Run("undo", param, undo(disk, param, answer))

RunRenamePlayer ==
  \E param \in RenamePlayerParams : \E answer \in BOOLEAN :
    \E orders \in HistoryOrders(disk.history) :
      Run("rename-player", param, rename_player(disk, param, answer, orders))

RunExportRatings ==
  \E param \in ExportRatingsParams : \E orders \in HistoryOrders(disk.history) :
    Run("export-ratings", param, export_ratings(disk, param, orders))

Next ==
  \/ RunPlay
  \/ RunArbitrary
  \/ RunCircular
  \/ RunSymmetric
  \/ RunNew
  \/ RunAddPlayer
  \/ RunRatings
  \/ RunConfig
  \/ RunUndo
  \/ RunRenamePlayer
  \/ RunExportRatings

Spec == Init /\ [][Next]_vars

(***************************************************************************)
(* Matching: match_names applied to a name and a pattern, both strings     *)
(* with any number of spaces before, between and after their words.        *)
(***************************************************************************)
\* the strings of a sequence of words, a space between each two
RECURSIVE Join(_)
Join(words) ==
  IF words = <<>> THEN <<>>
  ELSE IF Len(words) = 1 THEN words[1]
  ELSE words[1] \o <<" ">> \o Join(Tail(words))

\* the most words (empty ones included) of a name and of a pattern tried
MaxNameWords == 3
MaxPatternWords == 2
\* an empty word puts two spaces side by side, or one at an end
MatchWords == {<<>>, <<"M">>, <<"M", "a">>, <<"M", "á">>, <<"m", "a">>, <<"a">>}
SeqsUpTo(S, n) == UNION {[1..k -> S] : k \in 0..n}

Nemeth == <<"N", "é", "m", "e", "t", "h">>
Marcell == <<"M", "a", "r", "c", "e", "l", "l">>
Marton == <<"M", "á", "r", "t", "o", "n">>
Dominik == <<"D", "o", "m", "i", "n", "i", "k">>
\* the names and patterns of test::name_matching
TestedNames == {Join(<<Nemeth, Marcell>>), Join(<<Nemeth, Marton>>), Join(<<Nemeth, Dominik>>)}
TestedPatterns == {Join(<<Nemeth, <<"M">>>>), <<"M", "a">>}

MatchInputs ==
  ({Join(ws) : ws \in SeqsUpTo(MatchWords, MaxNameWords)}
     \X {Join(ws) : ws \in SeqsUpTo(MatchWords, MaxPatternWords)})
  \cup (TestedNames \X (TestedPatterns \cup {<<>>}))

MatchInit ==
  /\ disk = DefaultData
  /\ last = NoCommand
  /\ count = 0
  /\ change = NoChange
  /\ prev = NewEvaluation(DefaultConfig.starting_alpha)
  /\ ev = NewEvaluation(DefaultConfig.starting_alpha)
  /\ \E input \in MatchInputs : given_name = input[1] /\ given_pattern = input[2]
  /\ matching = None
  /\ NoRace

\* the call match_names(given_name, given_pattern)
MatchNames ==
  /\ ~matching.some
  /\ matching' = Some(MatchNamesOfStrings(given_name, given_pattern))
  /\ UNCHANGED <<disk, last, count, change, prev, ev, given_name, given_pattern,
               on_disk, pc, loaded, job>>

MatchNext == MatchNames

MatchSpec == MatchInit /\ [][MatchNext]_vars

(***************************************************************************)
(* Race: two invocations of the binary on one ledger file.  Each is a      *)
(* process of its own: read_data reads and parses the file, the command    *)
(* works on the Data in its memory, and write_data is fs::write, which     *)
(* opens the file truncating it and then writes the new content from       *)
(* offset 0 through its own file descriptor.  The content is a sequence    *)
(* of units, a unit standing for the bytes of one line of the document.    *)
(***************************************************************************)
\* the fields of the variants of Change, in the order they are declared
Fields(type) ==
  CASE type = "AddPlayer" -> <<"name", "rating">>
    [] type = "Play" -> <<"game_count", "date", "outcomes">>
    [] type = "Arbitrary" -> <<"date", "scores", "game_collections">>
    [] type = "Circular" -> <<"date", "outcomes", "game_count">>
    [] type = "Symmetric" -> <<"date", "scores", "round_count">>
    [] type = "AdjustAlpha" -> <<"new_alpha">>

\* toml::to_string of one element of the history: the variant, then its fields
SerializeChange(c) ==
  <<[variant |-> c.type]>>
  \o [i \in 1..Len(Fields(c.type)) |-> [key |-> Fields(c.type)[i], value |-> c[Fields(c.type)[i]]]]

RECURSIVE SerializeHistory(_)
SerializeHistory(history) ==
  IF history = <<>> THEN <<>>
  ELSE SerializeChange(Head(history)) \o SerializeHistory(Tail(history))

\* toml::to_string(data)
Serialize(data) == <<[config |-> data.config]>> \o SerializeHistory(data.history)

\* toml::from_str on what follows the config: None is its Err
RECURSIVE ParseHistory(_, _)
ParseHistory(units, history) ==
  IF units = <<>> THEN Some(history)
  ELSE IF "variant" \notin DOMAIN Head(units) THEN None
  ELSE LET type == Head(units).variant
           keys == Fields(type)
           n == Len(keys)
       IN IF \/ Len(units) < n + 1
             \/ \E i \in 1..n : \/ "key" \notin DOMAIN units[i + 1]
                                 \/ units[i + 1].key # keys[i]
          THEN None
          ELSE ParseHistory(SubSeq(units, n + 2, Len(units)),
                            Append(history,
                                   [f \in {"type"} \cup {keys[i] : i \in 1..n} |->
                                      IF f = "type" THEN type
                                      ELSE units[(CHOOSE i \in 1..n : keys[i] = f) + 1].value]))

\* toml::from_str(&data): None is its Err
Parse(units) ==
  IF units = <<>> \/ "config" \notin DOMAIN Head(units) THEN None
  ELSE LET history == ParseHistory(Tail(units), <<>>)
       IN IF history.some
          THEN Some([config |-> Head(units).config, history |-> history.value])
          ELSE None

\* write_all(contents) through a descriptor at offset 0: what the file holds
\* beyond the content written stays
Overwrite(content, written) ==
  written \o SubSeq(content, Len(written) + 1, Len(content))

Procs == {1, 2}
RaceJobs ==
  {[cmd |-> "add-player", param |-> [player |-> Cy, rating |-> None]],
   [cmd |-> "add-player", param |-> [player |-> Di, rating |-> Some(150 * Scale)]],
   [cmd |-> "config", param |-> [name |-> "score-multiplier", new_value |-> Some(5 * Scale)]],
   [cmd |-> "config", param |-> [name |-> "score-multiplier", new_value |-> Some(2 * Scale)]]}
\* the ledgers the two invocations find
RaceLedgers == {DefaultData, Registered(DefaultData, Registration)}

\* the Data the command j passes to write_data when it has read data
RaceResult(data, j) ==
  IF j.cmd = "add-player" THEN add_player(data, j.param).disk
  ELSE adjust(data, j.param, <<>>).disk

RaceInit ==
  /\ disk = DefaultData
  /\ last = NoCommand
  /\ count = 0
  /\ change = NoChange
  /\ prev = NewEvaluation(DefaultConfig.starting_alpha)
  /\ ev = NewEvaluation(DefaultConfig.starting_alpha)
  /\ NoMatching
  /\ \E ledger \in RaceLedgers : on_disk = Serialize(ledger)
  /\ pc = [p \in Procs |-> "start"]
  /\ loaded = [p \in Procs |-> None]
  /\ job \in [Procs -> RaceJobs]

RaceUnchanged ==
  UNCHANGED <<disk, last, count, change, prev, ev, given_name, given_pattern, matching, job>>

\* read_data: the invocation exits with status 1 when the file does not parse
RaceRead ==
  \E p \in Procs :
    /\ pc[p] = "start"
    /\ loaded' = [loaded EXCEPT ![p] = Parse(on_disk)]
    /\ pc' = [pc EXCEPT ![p] = IF Parse(on_disk).some THEN "loaded" ELSE "exit(1)"]
    /\ UNCHANGED on_disk
    /\ RaceUnchanged

\* write_data, first half: File::create opens the file and truncates it
RaceCreate ==
  \E p \in Procs :
    /\ pc[p] = "loaded"
    /\ on_disk' = <<>>
    /\ pc' = [pc EXCEPT ![p] = "created"]
    /\ UNCHANGED loaded
    /\ RaceUnchanged

\* write_data, second half: write_all of the serialized Data
RaceWrite ==
  \E p \in Procs :
    /\ pc[p] = "created"
    /\ on_disk' = Overwrite(on_disk, Serialize(RaceResult(loaded[p].value, job[p])))
    /\ pc' = [pc EXCEPT ![p] = "done"]
    /\ UNCHANGED loaded
    /\ RaceUnchanged

RaceNext ==
  \/ RaceRead
  \/ RaceCreate
  \/ RaceWrite

RaceSpec == RaceInit /\ [][RaceNext]_vars

(***************************************************************************)
(* Properties of the replay.  In a state of ReplaySpec, change is the      *)
(* change folded last, prev the Evaluation it was folded into and ev the   *)
(* Evaluation (or the panic) it left.                                      *)
(***************************************************************************)
Rated == {"Play", "Arbitrary", "Circular", "Symmetric"}

\* the names a change refers to
Participants(c) ==
  CASE c.type \in {"Play", "Circular"} -> {c.outcomes[i].player : i \in DOMAIN c.outcomes}
    [] c.type = "Symmetric" -> DOMAIN c.scores
    [] c.type = "Arbitrary" ->
         DOMAIN c.scores
         \cup {c.game_collections[k].players[e] : k \in DOMAIN c.game_collections, e \in 1..2}
    [] OTHER -> {}

\* C1: determinism of replay: folding a change into an Evaluation gives one
\* result, whichever way the name-keyed map of the change iterates; so two
\* calls of evaluate on the same History and starting_alpha, each on its own
\* load of the ledger, return identical Evaluations.
ReplayDeterministic ==
  change # NoChange =>
    \A o \in Orders(MapKeys(change)) : Change(prev, change, o) = ev

\* C4: a missing player is a hard failure: when the change folded last names a
\* participant that is not in the ratings map, the fold panics, the ratings map
\* is what it was (no default was inserted), and the replay still panics when
\* an AddPlayer for that name follows the change.
MissingPlayerFails ==
  (change.type \in Rated /\ Participants(change) \ DOMAIN prev.ratings # {}) =>
    /\ IsPanic(ev)
    /\ ev.at.ratings = prev.ratings
    /\ \A name \in Participants(change) \ DOMAIN prev.ratings :
         \A o \in Orders(MapKeys(change)) :
           IsPanic(EvaluateFrom(prev, <<change, AddPlayerChange(name, 0)>>, <<o, <<>> >>))

\* a Play naming Cy was folded before any AddPlayer of Cy, and panicked
MissingPlayerFailed ==
  /\ change.type = "Play"
  /\ Cy \in Participants(change)
  /\ Cy \notin DOMAIN prev.ratings
  /\ Abe \in DOMAIN prev.ratings
  /\ IsPanic(ev)

\* the three participants of a Play, in the order of its outcomes
Players(c) == [i \in 1..3 |-> c.outcomes[i].player]

\* a Play with game_count >= 1 over three distinct registered participants was
\* folded and returned
PlayFolded ==
  /\ change.type = "Play"
  /\ change.game_count >= 1
  /\ \A i, j \in 1..3 : Players(change)[i] = Players(change)[j] => i = j
  /\ \A i \in 1..3 : Players(change)[i] \in DOMAIN prev.ratings
  /\ ~IsPanic(ev)

\* the scores of the Play sum to 0 and alpha is in (0, 1)
ZeroSum ==
  /\ change.outcomes[1].score + change.outcomes[2].score + change.outcomes[3].score = 0
  /\ prev.alpha > 0
  /\ prev.alpha < Scale

\* the sum of the ratings of the three participants, in units
RatingSum(e) ==
  e.ratings[Players(change)[1]] + e.ratings[Players(change)[2]] + e.ratings[Players(change)[3]]

\* everyone but the three participants has the rating they had
OthersUnchanged ==
  /\ DOMAIN ev.ratings = DOMAIN prev.ratings
  /\ \A name \in DOMAIN prev.ratings \ Participants(change) :
       ev.ratings[name] = prev.ratings[name]

\* the per-game score of the i-th participant, in units
PerGame(i) == RoundDiv(change.outcomes[i].score * Scale, change.game_count)

\* the largest magnitude among the old ratings and the per-game scores
Magnitude ==
  LET m == {Abs(prev.ratings[Players(change)[i]]) : i \in 1..3}
           \cup {Abs(PerGame(i)) : i \in 1..3}
  IN CHOOSE x \in m : \A y \in m : y <= x

\* one unit in the last place of the largest magnitude
Ulp == Spacing(Magnitude, 1)

\* C5 as stated: zero-sum conservation: after a zero-sum Play with alpha in
\* (0, 1) and game_count >= 1 the sum of the three ratings equals their sum
\* before it, and every other rating is unchanged.
ZeroSumConservedExactly ==
  (PlayFolded /\ ZeroSum) => (RatingSum(ev) = RatingSum(prev) /\ OthersUnchanged)

\* C5: zero-sum conservation up to rounding: after a zero-sum Play with alpha
\* in (0, 1) and game_count >= 1 the sum of the three ratings is within 128
\* units in the last place of their sum before it, and every other rating is
\* exactly unchanged.
ZeroSumConserved ==
  (PlayFolded /\ ZeroSum) =>
    (Abs(RatingSum(ev) - RatingSum(prev)) <= 128 * Ulp /\ OthersUnchanged)

\* a zero-sum Play was folded over ratings of unlike magnitude, with a fourth
\* name in the map, and the sum moved by a rounding
ZeroSumPlayed ==
  /\ PlayFolded
  /\ ZeroSum
  /\ prev.ratings[Abe] = 10000
  /\ Di \in DOMAIN prev.ratings
  /\ RatingSum(ev) # RatingSum(prev)

\* (1 - alpha)^g in units
RECURSIVE PowWeight(_, _)
PowWeight(alpha, g) ==
  IF g = 0 THEN Scale ELSE RoundDiv(PowWeight(alpha, g - 1) * (Scale - alpha), Scale)

\* the target of the i-th participant: avg_rating + score_i / g
Target(i) == RoundDiv(RatingSum(prev), 3) + PerGame(i)

\* (1 - alpha)^g * r_i + (avg_rating + score_i / g) * (1 - (1 - alpha)^g)
Blend(i) ==
  RoundDiv(PowWeight(prev.alpha, change.game_count) * prev.ratings[Players(change)[i]]
           + (Scale - PowWeight(prev.alpha, change.game_count)) * Target(i),
           Scale)

\* the tested instance: ratings 0, 0, 0; scores +4, -2, -2; g = 1; alpha = 0.1
TestedInstance ==
  /\ PlayFolded
  /\ prev.alpha = 100
  /\ change.game_count = 1
  /\ Players(change) = <<Abe, Bo, Cy>>
  /\ [i \in 1..3 |-> change.outcomes[i].score] = <<4, 0 - 2, 0 - 2>>
  /\ \A i \in 1..3 : prev.ratings[Players(change)[i]] = 0

\* C6: the three-player update value: a Play with game_count g >= 1 leaves each
\* participant at (1-alpha)^g * r_i + (avg_rating + score_i/g) * (1 - (1-alpha)^g),
\* up to 4 units in the last place; in the tested instance the new ratings are
\* 0.4, -0.2, -0.2, which spread 50 and base_rating 100 display as 120, 90, 90.
PlayIsGeometricBlend ==
  /\ (PlayFolded /\ prev.alpha > 0 /\ prev.alpha < Scale) =>
       \A i \in 1..3 : Abs(ev.ratings[Players(change)[i]] - Blend(i)) <= 4 * Ulp
  /\ TestedInstance =>
       /\ <<ev.ratings[Abe], ev.ratings[Bo], ev.ratings[Cy]>> = <<400, 0 - 200, 0 - 200>>
       /\ rating_to_display(DefaultConfig, ev.ratings[Abe]) = 120 * Scale
       /\ rating_to_display(DefaultConfig, ev.ratings[Bo]) = 90 * Scale
       /\ rating_to_display(DefaultConfig, ev.ratings[Cy]) = 90 * Scale

Min(a, b) == IF a <= b THEN a ELSE b

\* C7: the convexity bound: after a Play with game_count g >= 1, folded with
\* the alpha in force, each participant's new rating lies between the old
\* rating r_i and the target avg_rating + score_i/g inclusive, up to 4 units in
\* the last place.
PlayIsConvex ==
  PlayFolded =>
    \A i \in 1..3 :
      /\ ev.ratings[Players(change)[i]]
           >= Min(prev.ratings[Players(change)[i]], Target(i)) - 4 * Ulp
      /\ ev.ratings[Players(change)[i]]
           <= Max(prev.ratings[Players(change)[i]], Target(i)) + 4 * Ulp

\* C8: the Symmetric guard: folding a Symmetric panics on the assertion
\* scores.len() >= 3 exactly when its scores map has fewer than 3 participants;
\* with 3 or more participants, all registered, it returns; and when it panics
\* the ratings map is what it was.
SymmetricGuard ==
  change.type = "Symmetric" =>
    /\ (IsPanic(ev) /\ ev.panic = "scores.len() >= 3")
         <=> Cardinality(DOMAIN change.scores) < 3
    /\ (Cardinality(DOMAIN change.scores) >= 3
        /\ DOMAIN change.scores \subseteq DOMAIN prev.ratings) => ~IsPanic(ev)
    /\ IsPanic(ev) => ev.at.ratings = prev.ratings

\* a Symmetric over two registered participants was folded, and panicked
SymmetricOfTwoFailed ==
  /\ change.type = "Symmetric"
  /\ Cardinality(DOMAIN change.scores) = 2
  /\ DOMAIN change.scores \subseteq DOMAIN prev.ratings
  /\ IsPanic(ev)

(***************************************************************************)
(* Properties of the commands.  In a state of Spec, disk is the ledger and *)
(* last the command run last: its parameters, how it ended, and the Data   *)
(* it held in memory when it ended.                                        *)
(***************************************************************************)
\* the scores of the command lines a command takes its iteration order over
Keyed(params) == UNION {{<<param, o>> : o \in Orders(1..Len(param.scores))} : param \in params}

\* the ways a command that appends a change can end when run on file
Appends(file) ==
  {play(file, param, today, orders, overflow_checks) :
     param \in PlayParams, today \in Days, orders \in HistoryOrders(file.history),
     overflow_checks \in BOOLEAN}
  \cup {arbitrary(file, k[1], today, orders, k[2]) :
          k \in Keyed(ArbitraryParams), today \in Days, orders \in HistoryOrders(file.history)}
  \cup {circular(file, param, today, orders) :
          param \in CircularParams, today \in Days, orders \in HistoryOrders(file.history)}
  \cup {symmetric(file, k[1], today, orders, k[2]) :
          k \in Keyed(SymmetricParams), today \in Days, orders \in HistoryOrders(file.history)}
  \cup {add_player(file, param) : param \in AddPlayerParams}
  \cup {adjust(file, param, orders) :
          param \in {q \in ConfigParams : q.name = "score-multiplier" /\ q.new_value.some},
          orders \in HistoryOrders(file.history)}

\* the ledger after `undo --no-confirm` on file
Undone(file) == undo(file, [no_confirm |-> TRUE], TRUE).disk

\* C2: undo is the inverse of append: when a command appends a change to the
\* ledger and undo then runs, the History is the one before the append,
\* element for element, and evaluate on it returns the Evaluation that
\* evaluate returned on the ledger before the append.
UndoInvertsAppend ==
  \A r \in Appends(disk) :
    r.outcome = "written" =>
      /\ Len(r.disk.history) = Len(disk.history) + 1
      /\ Undone(r.disk).history = disk.history
      /\ \A before, after \in HistoryOrders(disk.history) :
           Evaluate(Undone(r.disk), after) = Evaluate(disk, before)

RatedCommands == {"play", "arbitrary", "circular", "symmetric"}

\* C3: failure atomicity: when play, arbitrary, circular or symmetric ends in
\* a panic, or the History it extended in memory cannot be replayed, the
\* ledger is what it was; and when it changes the ledger, it appended one
\* change, kept the Config, and both the ledger before and the ledger after
\* replay without a panic.
FailureIsAtomic ==
  [][last'.cmd \in RatedCommands =>
       /\ last'.outcome = "panicked" => disk' = disk
       /\ (\A orders \in HistoryOrders(last'.memory.history) :
             IsPanic(Evaluate(last'.memory, orders))) => disk' = disk
       /\ disk' # disk =>
            /\ last'.outcome = "written"
            /\ disk'.config = disk.config
            /\ Len(disk'.history) = Len(disk.history) + 1
            /\ Pop(disk'.history) = disk.history
            /\ \E orders \in HistoryOrders(disk'.history) :
                 /\ ~IsPanic(Evaluate(disk, Pop(orders)))
                 /\ ~IsPanic(Evaluate(disk', orders))]_vars

\* a rated command appended its change in memory, the replay of the extended
\* History panicked, and the ledger does not hold the change
RatedCommandFailed ==
  /\ last.cmd \in RatedCommands
  /\ last.outcome = "panicked"
  /\ Len(last.memory.history) = Len(disk.history) + 1
  /\ Pop(last.memory.history) = disk.history

\* the name an AddPlayer registers
Registers(c) == IF c.type = "AddPlayer" THEN {c.name} ELSE {}

\* the names that occur in a history
Names(history) ==
  UNION {Registers(history[i]) \cup Participants(history[i]) : i \in DOMAIN history}

\* the Evaluation e with the key old_name replaced by new_name
Rekeyed(e, old_name, new_name) ==
  [e EXCEPT !.ratings = [name \in (DOMAIN @ \ {old_name}) \cup {new_name} |->
                           IF name = new_name THEN @[old_name] ELSE @[name]]]

\* C9: rename preserves ratings: when rename-player rewrites a ledger that
\* replays without a panic, with a new name that does not occur in its
\* History, the History keeps its length and the type of every event, the
\* Config is kept, and evaluate returns the Evaluation of the ledger before
\* with the key of the old name replaced by the new name: the same rating
\* under the new name, no entry under the old one, every other rating, alpha
\* and last_date unchanged.
RenamePreservesRatings ==
  [][(/\ last'.cmd = "rename-player"
      /\ last'.outcome = "written"
      /\ last'.param.new_name \notin Names(disk.history)) =>
       /\ disk'.config = disk.config
       /\ Len(disk'.history) = Len(disk.history)
       /\ \A i \in DOMAIN disk.history : disk'.history[i].type = disk.history[i].type
       /\ \A orders \in HistoryOrders(disk.history) :
            /\ ~IsPanic(Evaluate(disk, orders))
            /\ Evaluate(disk', orders)
                 = Rekeyed(Evaluate(disk, orders),
                           try_find_name(Evaluate(disk, orders), last'.param.old_name).value,
                           last'.param.new_name)]_vars

\* rename-player has rewritten a ledger whose History holds a Circular, which
\* now names Abraham, and Abe occurs nowhere in it
RenamedInOutcomes ==
  /\ last.cmd = "rename-player"
  /\ last.outcome = "written"
  /\ last.param.new_name = Abraham
  /\ \E i \in DOMAIN disk.history :
       /\ disk.history[i].type = "Circular"
       /\ Abraham \in Participants(disk.history[i])
  /\ Abe \notin Names(disk.history)

\* C10: an unsupported rename is rejected without corruption: when
\* rename-player has run on a ledger whose History holds an Arbitrary or a
\* Symmetric, it did not write, the ledger is what it was, and the History in
\* its memory is the History of the ledger: no event of it has been rewritten.
UnsupportedRenameRejected ==
  (/\ last.cmd = "rename-player"
   /\ \E i \in DOMAIN disk.history : disk.history[i].type \in {"Arbitrary", "Symmetric"}) =>
    /\ last.outcome \in {"panicked", "returned"}
    /\ last.memory.history = disk.history

\* C11: undo removes exactly the last element: on a non-empty History of
\* length n an undo that is confirmed (by --no-confirm or by the answer y)
\* writes a ledger with the same Config whose History is the first n-1
\* elements, unchanged and in order; on an empty History undo ends with
\* exit(1) and the ledger is what it was; an undo whose confirmation is
\* declined returns and the ledger is what it was.
UndoRemovesLast ==
  [][last'.cmd = "undo" =>
       /\ last'.outcome \in {"exit(1)", "returned", "written"}
       /\ last'.outcome = "exit(1)" <=> disk.history = <<>>
       /\ last'.outcome = "exit(1)" => disk' = disk
       /\ last'.outcome = "returned" => (disk' = disk /\ ~last'.param.no_confirm)
       /\ (last'.param.no_confirm /\ disk.history # <<>>) => last'.outcome = "written"
       /\ last'.outcome = "written" =>
            /\ disk'.config = disk.config
            /\ Len(disk'.history) = Len(disk.history) - 1
            /\ \A i \in 1..(Len(disk.history) - 1) : disk'.history[i] = disk.history[i]]_vars

\* an undo confirmed by the answer y has taken the fourth element off a History
UndoConfirmed ==
  /\ last.cmd = "undo"
  /\ last.outcome = "written"
  /\ ~last.param.no_confirm
  /\ Len(disk.history) = 3
  /\ \A i \in 1..3 : disk.history[i].type = "AddPlayer"

\* the values an AdjustAlpha is tried with around a fold
TriedAlphas == ReplayAlphas \cup StartingAlphas

\* C12: AdjustAlpha acts forward only: folding AdjustAlpha(a) leaves ratings
\* and last_date as they were and sets alpha to a; every other change that is
\* folded leaves alpha as it was, and the replay starts at starting_alpha, so
\* the alpha an update is given is that of the last AdjustAlpha before it, or
\* starting_alpha; a change followed by AdjustAlpha(a) is folded with the
\* earlier alpha, and a change that follows AdjustAlpha(a) is folded with a.
AlphaActsForward ==
  /\ count = 0 => ev.alpha \in StartingAlphas
  /\ (change.type = "AdjustAlpha" /\ ~IsPanic(ev)) =>
       /\ ev.alpha = change.new_alpha
       /\ ev.ratings = prev.ratings
       /\ ev.last_date = prev.last_date
  /\ (change.type \notin {"AdjustAlpha", "none"} /\ ~IsPanic(ev)) =>
       /\ ev.alpha = prev.alpha
       /\ \A a \in TriedAlphas : \A o \in Orders(MapKeys(change)) :
            /\ EvaluateFrom(prev, <<change, AdjustAlphaChange(a)>>, <<o, <<>> >>).ratings
                 = Change(prev, change, o).ratings
            /\ EvaluateFrom(prev, <<AdjustAlphaChange(a), change>>, << <<>>, o>>)
                 = Change([prev EXCEPT !.alpha = a], change, o)

\* a Play was folded after an AdjustAlpha, with its alpha and not with
\* starting_alpha
PlayedWithAdjustedAlpha ==
  /\ change.type = "Play"
  /\ prev.alpha \in ReplayAlphas
  /\ prev.alpha \notin StartingAlphas
  /\ ~IsPanic(ev)
  /\ ev.ratings # prev.ratings

\* the dated changes without a map
DatedChanges == ReplayPlays \cup ReplayCirculars

\* the greatest of three dates
Max3(a, b, c) == Max(a, Max(b, c))

\* C13: last_date is the running maximum of the event dates: it is None
\* before any change is folded; folding a Play, Arbitrary, Circular or
\* Symmetric leaves it at the greater of its earlier value and the date of the
\* change, so it never decreases; AddPlayer and AdjustAlpha leave it
\* unchanged; and two dated changes folded one after the other leave the
\* greatest of the three dates, in whichever order they are folded.
LastDateIsRunningMax ==
  /\ count = 0 => ev.last_date = NoDate
  /\ (change.type \in Rated /\ ~IsPanic(ev)) =>
       /\ ev.last_date = Max(prev.last_date, change.date)
       /\ ev.last_date >= prev.last_date
       /\ \A c \in DatedChanges :
            /\ ~IsPanic(Change(ev, c, <<>>)) =>
                 Change(ev, c, <<>>).last_date = Max3(prev.last_date, change.date, c.date)
            /\ \A o \in Orders(MapKeys(change)) :
                 ~IsPanic(EvaluateFrom(prev, <<c, change>>, << <<>>, o>>)) =>
                   EvaluateFrom(prev, <<c, change>>, << <<>>, o>>).last_date
                     = Max3(prev.last_date, change.date, c.date)
  /\ (change.type \in {"AddPlayer", "AdjustAlpha"} /\ ~IsPanic(ev)) =>
       ev.last_date = prev.last_date

\* a change dated 1 was folded after a change dated 2, and last_date stayed 2
EarlierDateFoldedLater ==
  /\ change.type \in Rated
  /\ change.date = 1
  /\ prev.last_date = 2
  /\ ~IsPanic(ev)
  /\ ev.last_date = 2

\* the game_count of a Play or a Circular, the round_count of a Symmetric
Count(c) == IF c.type = "Symmetric" THEN c.round_count ELSE c.game_count

\* C14: invalid counts are rejected: folding a Play or a Circular with
\* game_count = 0, or a Symmetric with round_count = 0, panics, and the ratings
\* map is what it was; it never returns an Evaluation.
ZeroCountRejected ==
  (change.type \in {"Play", "Circular", "Symmetric"} /\ Count(change) = 0) =>
    (IsPanic(ev) /\ ev.at.ratings = prev.ratings)

\* C15: the spread of every persisted Config is non-zero, whatever commands
\* were run on the ledger since it was created, so that rating_from_display
\* and alpha_from_display never divide by zero.
SpreadNonZero == disk.config.spread # 0

(***************************************************************************)
(* Properties of match_names, in the states of MatchSpec                   *)
(***************************************************************************)
\* the words of a string: its maximal runs of characters other than the
\* space, each as <<first, last>>
Runs(str) ==
  {r \in (1..Len(str)) \X (1..Len(str)) :
     /\ r[1] <= r[2]
     /\ \A k \in r[1]..r[2] : str[k] # " "
     /\ (r[1] = 1 \/ str[r[1] - 1] = " ")
     /\ (r[2] = Len(str) \/ str[r[2] + 1] = " ")}

\* there is a subsequence of the words of name, in their order, of which the
\* words of pat are prefixes, one word each
PrefixesOfSubsequence(name, pat) ==
  \E f \in [Runs(pat) -> Runs(name)] :
    /\ \A a, b \in Runs(pat) : a[1] < b[1] => f[a][1] < f[b][1]
    /\ \A a \in Runs(pat) :
         /\ a[2] - a[1] <= f[a][2] - f[a][1]
         /\ \A k \in 0..(a[2] - a[1]) : name[f[a][1] + k] = pat[a[1] + k]

Window(n, p) == {((p + d) % n) + 1 : d \in 0..2}

\* what one window adds: +1 for every ordered pair of two different members,
\* -2 on the diagonal for every member
WindowEntry(n, p, j0, j1) ==
  IF j0 \in Window(n, p) /\ j1 \in Window(n, p)
  THEN (IF j0 = j1 THEN 0 - 2 ELSE 1)
  ELSE 0

\* the sum of the windows at positions[1], positions[2], ...
SumOfWindows(n, positions) ==
  Vector([j0 \in 1..n |-> Vector([j1 \in 1..n |->
     SumTo([k \in 1..Len(positions) |-> WindowEntry(n, positions[k], j0, j1)],
           Len(positions))], n)], n)

\* the ratings a Circular leaves when matrix is fed to the diffusion formula
CircularFedWith(matrix) ==
  LET n == Len(change.outcomes)
      players == Vector([i \in 1..n |-> change.outcomes[i].player], n)
  IN WriteAll(prev.ratings, players,
              update_generic(prev.alpha, matrix,
                             Vector([i \in 1..n |-> prev.ratings[players[i]]], n),
                             Vector([i \in 1..n |-> change.outcomes[i].score], n)))

\* the Circular folded last has three participants or more, all registered
CircularFolded ==
  /\ change.type = "Circular"
  /\ Len(change.outcomes) >= 3
  /\ Participants(change) \subseteq DOMAIN prev.ratings

\* C17 as stated: the matrix of a Circular is the sum, over each of
\* game_count rounds and over all n window positions of a round, of the
\* width-3 wrapping windows.
CircularWindowsPerRound ==
  CircularFolded =>
    LET n == Len(change.outcomes)
        positions == Vector([k \in 1..(change.game_count * n) |-> (k - 1) % n],
                            change.game_count * n)
    IN /\ CircularMatrix(n, change.game_count) = SumOfWindows(n, positions)
       /\ ~IsPanic(ev)
       /\ ev.ratings = CircularFedWith(SumOfWindows(n, positions))

\* C17: for a Circular with n >= 3 participants, all registered, and
\* game_count g, the matrix fed to the diffusion formula is the sum over the
\* games i = 0, ..., g - 1 of one width-3 wrapping window, the one at position
\* i mod n: g windows in all, where a window adds +1 to the entry of every
\* ordered pair of two different members and -2 to the diagonal entry of every
\* member.
CircularWindowPerGame ==
  CircularFolded =>
    LET n == Len(change.outcomes)
        positions == Vector([k \in 1..change.game_count |-> (k - 1) % n],
                            change.game_count)
    IN /\ CircularMatrix(n, change.game_count) = SumOfWindows(n, positions)
       /\ ~IsPanic(ev)
       /\ ev.ratings = CircularFedWith(SumOfWindows(n, positions))

\* a Circular of four players and five games was folded: the windows differ
\* from game to game, and the fifth is the first again
CircularOfFourFolded ==
  /\ CircularFolded
  /\ Len(change.outcomes) = 4
  /\ change.game_count = 5
  /\ ~IsPanic(ev)
  /\ ev.ratings # prev.ratings

(***************************************************************************)
(* The matrix of an Arbitrary                                              *)
(***************************************************************************)
\* the games of the collections that pair the players p and q
GamesBetween(c, p, q) ==
  SumOver([k \in 1..Len(c.game_collections) |-> c.game_collections[k].game_count],
          Len(c.game_collections),
          {k \in 1..Len(c.game_collections) :
             {c.game_collections[k].players[1], c.game_collections[k].players[2]} = {p, q}})

\* C18: an Arbitrary all of whose named participants are in the ratings map
\* is folded, also when a game collection names a participant without a
\* score; its matrix has one row and one column for each distinct participant
\* named in the scores or in a game collection, is symmetric, has at (i, j),
\* i # j, the total game_count of the collections pairing i with j, and has
\* rows that sum to zero.
ArbitraryIsLaplacian ==
  (change.type = "Arbitrary" /\ Participants(change) \subseteq DOMAIN prev.ratings) =>
    /\ ~IsPanic(ev)
    /\ \A order \in Orders(DOMAIN change.scores) :
         LET n == Len(order)
             index == [p \in DOMAIN change.scores |-> CHOOSE i \in 1..n : order[i] = p]
             matrix == ArbitraryMatrix(n, index, change.game_collections)
         IN /\ n = Cardinality(Participants(change))
            /\ \A i, j \in 1..n :
                 /\ matrix[i][j] = matrix[j][i]
                 /\ i # j => matrix[i][j] = GamesBetween(change, order[i], order[j])
            /\ \A i \in 1..n : SumTo(matrix[i], n) = 0

(***************************************************************************)
(* Properties of two invocations side by side, in the states of RaceSpec   *)
(***************************************************************************)
\* both invocations read the same ledger: neither read what the other wrote
BothLoadedFirst ==
  /\ \A p \in Procs : loaded[p].some
  /\ loaded[1] = loaded[2]

\* C19: last writer wins: when two invocations each load the ledger, append
\* one event and save, and both load before either saves, the file holds
\* after the later save the loaded History followed by the event of the
\* invocation that saved last, and that alone; and whenever both are done the
\* file is the complete result of one of the two, never a mixture.
LastWriterWins ==
  /\ [][\A p \in Procs :
          (/\ pc[p] = "created" /\ pc'[p] = "done"
           /\ \A q \in Procs \ {p} : pc[q] = "done"
           /\ BothLoadedFirst)
          => Parse(on_disk') = Some(RaceResult(loaded[p].value, job[p]))]_vars
  /\ []((\A p \in Procs : pc[p] = "done") =>
          \E p \in Procs : Parse(on_disk) = Some(RaceResult(loaded[p].value, job[p])))

(***************************************************************************)
(* What the play command admits                                            *)
(***************************************************************************)
\* the names registered by a history
Registered_names(history) == UNION {Registers(history[i]) : i \in DOMAIN history}

\* the pattern stands for one of the names, and one only
MatchesOne(names, p) ==
  p \in names \/ Cardinality({name \in names : match_names(name, p)}) = 1

\* C20: a play command whose three scores do not sum to 0, or one of whose
\* three patterns matches no or several existing names, leaves the ledger
\* file as it is; and a play command that changes the ledger appended one
\* Play whose scores sum to 0 and whose three players are in the ratings map.
PlayAdmitsZeroSum ==
  [][last'.cmd = "play" =>
       LET param == last'.param
           names == Registered_names(disk.history)
       IN /\ (\/ param.score_1 + param.score_2 + param.score_3 # 0
              \/ \E p \in {param.player_1, param.player_2, param.player_3} :
                   ~MatchesOne(names, p))
             => (disk' = disk /\ last'.outcome # "written")
          /\ disk' # disk =>
               /\ Len(disk'.history) = Len(disk.history) + 1
               /\ SubSeq(disk'.history, 1, Len(disk.history)) = disk.history
               /\ disk'.config = disk.config
               /\ LET c == disk'.history[Len(disk'.history)]
                  IN /\ c.type = "Play"
                     /\ c.outcomes[1].score + c.outcomes[2].score + c.outcomes[3].score = 0
                     /\ \A i \in 1..3 : c.outcomes[i].player \in names]_vars

====
